---- MODULE Spec2Model ----
(***************************************************************************)
(* Energy-balance core of the health tracker: the calorie formulas         *)
(* (lib/calories.ts), the daily and monthly summarizers and the report     *)
(* functions (both carried in src/src/lib/gemini.ts), and the reports page *)
(* that feeds them (app/(dashboard)/reports/page.tsx).                     *)
(*                                                                         *)
(* Number representation                                                   *)
(*   weights        tenths of a kilogram   (70.5 kg  = 705)                *)
(*   heights, ages  whole centimetres / years                              *)
(*   meal calories  halves of a kcal       (100.5 kcal = 201), because the *)
(*                  meal form stores Number(text), which may be fractional *)
(*   instants       milliseconds since the epoch, as Date.getTime()        *)
(*   a nullable number is 0 when null: every read of such a field in the   *)
(*   code is a truthiness test (!x, x || d), which null and 0 both fail.   *)
(*   other rationals are records [num, den] with den > 0.                  *)
(*   The literal 10 that multiplies a kcal amount next to a weight is the  *)
(*   tenths-of-kg scale; the literal 2 next to a meal amount is the        *)
(*   halves-of-kcal scale.                                                 *)
(***************************************************************************)
EXTENDS Integers, Sequences, FiniteSets, TLC

VARIABLES
    today,        \* the wall clock: what new Date() returns now
    goalArgs,     \* arguments of a direct call of calculateTargetCaloriesForWeightGoal
    goalResult,   \* <<>> before the call, <<r>> after it
    profile,      \* generateDailySummary's profile argument: <<>> or <<UserProfile>>
    todayMeals,   \* its meals argument, a sequence of MealData
    todayExercises, \* its exercises argument, a sequence of ExerciseData
    todayWeight,  \* its weight argument: <<>> or <<weight in tenths of kg>>
    daily,        \* <<>> before the call, <<DailySummary>> after it
    dailyData,    \* generateMonthlySummary's day-buckets, oldest first
    startWeightData, \* its first weight entry of the month: <<>> or <<tenths of kg>>
    endWeightData,   \* its last weight entry of the month: <<>> or <<tenths of kg>>
    monthly,      \* <<>> before the call, <<MonthlySummary>> after it
    user,         \* reports page: does supabase.auth.getUser() yield a user
    genAI,        \* lib/gemini: TRUE when the module holds a configured client
    mealsTable,   \* rows of "meals", in ascending created_at order
    exercisesTable, \* rows of "exercises", in ascending created_at order
    weightsTable, \* rows of "weights", in ascending created_at order
    pc,           \* where fetchData stands
    monthlyMeals, \* fetchData's query results for the month
    monthlyExercises,
    monthlyWeights,
    dailyReport,  \* React state: <<>> is null
    monthlyReport,
    isLoading,
    call,         \* a direct call of one formula: its name and arguments
    result,       \* <<>> before that call returns, <<value>> after it
    reqPath,      \* req.nextUrl.pathname of the request the browser is making
    signedIn,     \* does supabase.auth.getUser() yield a user for the cookie
    response,     \* <<>> while the request is in flight, <<NextResponse>> after
    redirects,    \* redirects followed since the browser's last navigation
    navigations   \* navigations the browser has made

goalVars == <<goalArgs, goalResult>>

dayVars == <<profile, todayMeals, todayExercises, todayWeight, daily>>

monthVars == <<dailyData, startWeightData, endWeightData, monthly>>

pageVars == <<user, genAI, mealsTable, exercisesTable, weightsTable, pc, monthlyMeals,
              monthlyExercises, monthlyWeights, dailyReport, monthlyReport, isLoading>>

formulaVars == <<call, result>>
routeVars == <<reqPath, signedIn, response, redirects, navigations>>

vars == <<today, goalVars, dayVars, monthVars, pageVars, formulaVars,
         routeVars>>

\* no formula is being called directly
FormulaIdle == call = <<>> /\ result = <<>>
RouteIdle ==
    /\ reqPath = "/"
    /\ signedIn = FALSE
    /\ response = <<>>
    /\ redirects = 0
    /\ navigations = 0

\* the reports page is not open
PageIdle ==
    /\ user = FALSE /\ genAI = FALSE
    /\ mealsTable = <<>> /\ exercisesTable = <<>> /\ weightsTable = <<>>
    /\ pc = "idle"
    /\ monthlyMeals = <<>> /\ monthlyExercises = <<>> /\ monthlyWeights = <<>>
    /\ dailyReport = <<>> /\ monthlyReport = <<>> /\ isLoading = FALSE

(***************************************************************************)
(* Arithmetic of the JavaScript runtime                                    *)
(***************************************************************************)

\* Math.abs
Abs(x) == IF x < 0 THEN 0 - x ELSE x

\* Math.max / Math.min on two numbers
Max(a, b) == IF a >= b THEN a ELSE b

Min(a, b) == IF a <= b THEN a ELSE b

\* floor(num / den) for den > 0, also for negative num
FloorDiv(num, den) == IF num >= 0 THEN num \div den ELSE 0 - ((den - 1 - num) \div den)

\* Math.round(num / den) for den > 0: the nearest integer, halves towards +infinity
MathRound(num, den) == FloorDiv(2 * num + den, 2 * den)

\* Math.ceil(num / den) for den > 0
MathCeil(num, den) == 0 - FloorDiv(0 - num, den)

\* 1000 * 3600 * 24, the milliseconds of one day
MsPerDay == 1000 * 3600 * 24

\* kcal taken to be one kilogram of body mass
KcalPerKg == 7700

(***************************************************************************)
(* Dates                                                                   *)
(***************************************************************************)

\* The date-only strings the model uses, with the day number each names.
\* new Date("YYYY-MM-DD") is midnight UTC of that day.
DayOfDateString ==
    [s \in {"1970-01-01", "1970-01-02", "1970-01-03", "1970-01-04", "1970-01-05"} |->
        CASE s = "1970-01-01" -> 0
          [] s = "1970-01-02" -> 1
          [] s = "1970-01-03" -> 2
          [] s = "1970-01-04" -> 3
          [] s = "1970-01-05" -> 4]

\* new Date(s): a valid instant, or an Invalid Date whose getTime() is NaN
NewDate(s) ==
    IF s \in DOMAIN DayOfDateString
    THEN [valid |-> TRUE, time |-> DayOfDateString[s] * MsPerDay]
    ELSE [valid |-> FALSE, time |-> 0]

(***************************************************************************)
(* lib/calories.ts: goal resolver                                          *)
(***************************************************************************)

\* calculateCaloriesForGoal's table of adjustments
GoalChanges ==
    [loss     |-> [slow |-> 0 - 250, moderate |-> 0 - 500, fast |-> 0 - 750],
     maintain |-> [slow |-> 0, moderate |-> 0, fast |-> 0],
     gain     |-> [slow |-> 250, moderate |-> 500, fast |-> 750]]

calculateCaloriesForGoal(tdee, goal, rate) ==
    MathRound(tdee + GoalChanges[goal][rate], 1)

\* A variant without the zero guard: weight / 0 is Infinity, which
\* fails every "<" test of determineWeightGoalFromBMI.
calculateBMI_unguarded(wt, height) ==
    [num |-> wt * 1000, den |-> height * height]

\* weight (tenths of kg) / (height/100)^2 as a rational; 0 when either is falsy
calculateBMI(wt, height) ==
    IF wt = 0 \/ height = 0
    THEN [num |-> 0, den |-> 1]
    ELSE [num |-> wt * 1000, den |-> height * height]

\* bmi < x, for x = n/2
BmiBelowHalves(bmi, n) == 2 * bmi.num < n * bmi.den

\* A variant whose upper limits are inclusive: a BMI of exactly 18.5, 25 or
\* 30 falls into the range below it.
determineWeightGoalFromBMI_inclusive(bmi) ==
    IF 2 * bmi.num <= 37 * bmi.den THEN [goal |-> "gain", rate |-> "moderate"]
    ELSE IF 2 * bmi.num <= 50 * bmi.den THEN [goal |-> "maintain", rate |-> "moderate"]
    ELSE IF 2 * bmi.num <= 60 * bmi.den THEN [goal |-> "loss", rate |-> "moderate"]
    ELSE [goal |-> "loss", rate |-> "fast"]

determineWeightGoalFromBMI(bmi) ==
    IF BmiBelowHalves(bmi, 37) THEN [goal |-> "gain", rate |-> "moderate"]
    ELSE IF ~BmiBelowHalves(bmi, 37) /\ BmiBelowHalves(bmi, 50)
         THEN [goal |-> "maintain", rate |-> "moderate"]
    ELSE IF ~BmiBelowHalves(bmi, 50) /\ BmiBelowHalves(bmi, 60)
         THEN [goal |-> "loss", rate |-> "moderate"]
    ELSE [goal |-> "loss", rate |-> "fast"]

calculateTargetCaloriesBasedOnBMI(wt, height, tdee) ==
    LET bmi == calculateBMI(wt, height)
        g   == determineWeightGoalFromBMI(bmi)
    IN  calculateCaloriesForGoal(tdee, g.goal, g.rate)

\* Safety limit of the deadline plan
minCalories == 1200

\* A variant that forgets the safety limit.
calculateTargetCaloriesForWeightGoal_nofloor(currentWeight, targetWeight, targetDate, tdee, now) ==
    LET targetDay == NewDate(targetDate)
        days == MathCeil(targetDay.time - now, MsPerDay)
    IN  IF targetWeight = 0 \/ targetDate = "" \/ (targetDay.valid /\ targetDay.time <= now)
        THEN [path |-> "bmi", nan |-> FALSE, today |-> now,
              value |-> calculateTargetCaloriesBasedOnBMI(currentWeight, 0, tdee)]
        ELSE [path |-> "deadline", nan |-> ~targetDay.valid, today |-> now,
              value |-> IF targetDay.valid
                        THEN MathRound(tdee * 10 * days
                                         + (targetWeight - currentWeight) * KcalPerKg,
                                       10 * days)
                        ELSE 0]

\* A variant whose date guard is "targetDay < today": a target instant equal
\* to now then reaches the division with daysUntilTarget = 0.
calculateTargetCaloriesForWeightGoal_lt(currentWeight, targetWeight, targetDate, tdee, now) ==
    LET targetDay == NewDate(targetDate)
        days == MathCeil(targetDay.time - now, MsPerDay)
    IN  IF targetWeight = 0 \/ targetDate = "" \/ (targetDay.valid /\ targetDay.time < now)
        THEN [path |-> "bmi", nan |-> FALSE, today |-> now,
              value |-> calculateTargetCaloriesBasedOnBMI(currentWeight, 0, tdee)]
        ELSE IF ~targetDay.valid \/ days = 0
        THEN [path |-> "deadline", nan |-> TRUE, today |-> now, value |-> 0]
        ELSE [path |-> "deadline", nan |-> FALSE, today |-> now,
              value |-> Max(minCalories,
                            MathRound(tdee * 10 * days
                                        + (targetWeight - currentWeight) * KcalPerKg,
                                      10 * days))]

\* The result records which return statement produced it (path), the instant
\* the call read from the clock (today), and whether the number is NaN.
calculateTargetCaloriesForWeightGoal(currentWeight, targetWeight, targetDate, tdee, now) ==
    IF targetWeight = 0 \/ targetDate = ""
    THEN [path |-> "bmi", nan |-> FALSE, today |-> now,
          value |-> calculateTargetCaloriesBasedOnBMI(currentWeight, 0, tdee)]
    ELSE
      LET weightDifference == targetWeight - currentWeight
          targetDay == NewDate(targetDate)
      IN  IF targetDay.valid /\ targetDay.time <= now
          THEN [path |-> "bmi", nan |-> FALSE, today |-> now,
                value |-> calculateTargetCaloriesBasedOnBMI(currentWeight, 0, tdee)]
          ELSE IF ~targetDay.valid
          \* NaN <= today is false; every later step keeps the NaN
          THEN [path |-> "deadline", nan |-> TRUE, today |-> now, value |-> 0]
          ELSE
            LET daysUntilTarget == MathCeil(targetDay.time - now, MsPerDay)
                \* round(tdee + weightDifference * 7700 / daysUntilTarget)
                goalCalories ==
                    MathRound(tdee * 10 * daysUntilTarget
                                + weightDifference * KcalPerKg,
                              10 * daysUntilTarget)
            IN  [path |-> "deadline", nan |-> FALSE, today |-> now,
                 value |-> IF goalCalories < minCalories THEN minCalories
                           ELSE goalCalories]

(***************************************************************************)
(* lib/calories.ts: energy formulas                                        *)
(***************************************************************************)

\* A variant that subtracts 161 for 'female' only and adds 5 for every other
\* gender.
calculateBMR_femaleOnly(wt, height, age, gender) ==
    IF wt = 0 \/ height = 0 \/ age = 0 \/ gender = ""
    THEN [num |-> 0, den |-> 4]
    ELSE IF gender = "female"
    THEN [num |-> 4 * wt + 25 * height - 20 * age - 4 * 161, den |-> 4]
    ELSE [num |-> 4 * wt + 25 * height - 20 * age + 4 * 5, den |-> 4]

\* Mifflin-St Jeor, in quarters of a kcal (6.25 * height has two binary
\* places): 10*weight + 6.25*height - 5*age + 5 (male) or - 161 (any other)
calculateBMR(wt, height, age, gender) ==
    IF wt = 0 \/ height = 0 \/ age = 0 \/ gender = ""
    THEN [num |-> 0, den |-> 4]
    ELSE IF gender = "male"
    THEN [num |-> 4 * wt + 25 * height - 20 * age + 4 * 5, den |-> 4]
    ELSE [num |-> 4 * wt + 25 * height - 20 * age - 4 * 161, den |-> 4]

\* activityMultipliers, in thousandths
activityMultipliers ==
    [sedentary |-> 1200, light |-> 1375, moderate |-> 1550, active |-> 1725,
     very_active |-> 1900]

\* Names that every object literal inherits from Object.prototype (some of
\* them): obj[name] yields the inherited function or object, which is truthy
\* and not a number, and (name in obj) is true.
ObjectPrototypeNames == {"constructor", "toString", "__proto__"}

\* The result is [nan, value]: Math.round(bmr * multiplier) is NaN when the
\* lookup activityMultipliers[activityLevel] finds an inherited member, which
\* "|| 1.2" keeps because it is truthy.
calculateTDEE(bmr, activityLevel) ==
    IF bmr.num = 0 \/ activityLevel = ""
    THEN [nan |-> FALSE, value |-> 0]
    ELSE IF activityLevel \in DOMAIN activityMultipliers
    THEN [nan |-> FALSE,
          value |-> MathRound(bmr.num * activityMultipliers[activityLevel], bmr.den * 1000)]
    ELSE IF activityLevel \in ObjectPrototypeNames
    THEN [nan |-> TRUE, value |-> 0]
    ELSE [nan |-> FALSE, value |-> MathRound(bmr.num * 1200, bmr.den * 1000)]

\* metValues, in tenths of a MET
metValues ==
    [low      |-> [general |-> 30, walking |-> 25, cycling |-> 40, swimming |-> 50,
                   strength |-> 35],
     moderate |-> [general |-> 50, walking |-> 43, cycling |-> 80, swimming |-> 70,
                   strength |-> 50],
     high     |-> [general |-> 80, walking |-> 60, cycling |-> 120, swimming |-> 100,
                   strength |-> 60]]

\* calculateExerciseCalories(weight, duration, intensity, exerciseType): weight in
\* tenths of kg, duration in minutes.  The "in" tests also accept inherited
\* names; the MET looked up under such a name is a function or undefined, and
\* the product NaN.
calculateExerciseCalories(wt, duration, intensity, exerciseType) ==
    IF wt = 0 \/ duration = 0
    THEN [nan |-> FALSE, value |-> 0]
    ELSE LET type == IF \/ exerciseType \in DOMAIN metValues.moderate
                        \/ exerciseType \in ObjectPrototypeNames
                     THEN exerciseType ELSE "general"
             intensityLevel == IF \/ intensity \in DOMAIN metValues
                                  \/ intensity \in ObjectPrototypeNames
                               THEN intensity ELSE "moderate"
         IN  IF intensityLevel \in ObjectPrototypeNames \/ type \in ObjectPrototypeNames
             THEN [nan |-> TRUE, value |-> 0]
             ELSE [nan |-> FALSE,
                   \* round(met * weight * (duration / 60))
                   value |-> MathRound(metValues[intensityLevel][type] * wt * duration,
                                       10 * 10 * 60)]

\* A variant with the operands exchanged.
calculateNetCalories_swapped(caloriesConsumed, caloriesBurned) ==
    caloriesBurned - caloriesConsumed

calculateNetCalories(caloriesConsumed, caloriesBurned) ==
    caloriesConsumed - caloriesBurned

\* (netCaloriesPerDay * days) / 7700 as a fraction; net is num/den kcal
estimateWeightChange(net, days) ==
    [num |-> net.num * days, den |-> net.den * KcalPerKg]

(***************************************************************************)
(* The daily summarizer (src/src/lib/gemini.ts)                            *)
(***************************************************************************)

\* array.reduce((sum, x) => sum + (x || 0), 0) over a sequence of numbers
RECURSIVE Reduce(_)
Reduce(xs) == IF xs = <<>> THEN 0 ELSE xs[1] + Reduce(Tail(xs))

\* x || undefined: an absent field is <<>>, a present one <<x>>
OrUndefined(x, falsy) == IF x = falsy THEN <<>> ELSE <<x>>

\* Number.prototype.toFixed(3) of num/den (den > 0): the sign is split off,
\* the magnitude is rounded to thousandths (halves upwards), and the sign is
\* printed even when the digits are all zero ("-0.000").
ToFixed3(num, den) ==
    [negative |-> num < 0,
     thousandths |-> FloorDiv(2 * Abs(num) * 1000 + den, 2 * den)]

calculateDailyCalorieRequirements(p, w) ==
    IF p.height = 0 \/ p.age = 0 \/ p.gender = "" \/ p.activity_level = ""
    THEN [bmr |-> [num |-> 0, den |-> 4], tdee |-> [nan |-> FALSE, value |-> 0]]
    ELSE LET bmr == calculateBMR(w, p.height, p.age, p.gender)
         IN  [bmr |-> bmr, tdee |-> calculateTDEE(bmr, p.activity_level)]

\* A variant of the completeness test that forgets the activity level.
ProfileComplete_noActivity(pf, wt) ==
    /\ pf # <<>> /\ wt # <<>>
    /\ pf[1].height # 0 /\ pf[1].age # 0 /\ pf[1].gender # ""

\* profile && weight && profile.height && profile.age && profile.gender &&
\* profile.activity_level
ProfileComplete(pf, wt) ==
    /\ pf # <<>> /\ wt # <<>>
    /\ pf[1].height # 0 /\ pf[1].age # 0
    /\ pf[1].gender # "" /\ pf[1].activity_level # ""

\* generateDailySummary(meals, exercises, weight?, profile?), called at the
\* instant now.  Meal calories are in halves of a kcal, so the amounts that
\* mix with them (net, deficit) are too until they are rounded for the
\* record.  nan says that calorie_target, calorie_deficit and
\* estimated_daily_weight_change are NaN, tdee_nan that tdee is.  today is the
\* instant the call read.
generateDailySummary(ms, es, wt, pf, now) ==
    LET totalCaloriesConsumed == Reduce([i \in 1..Len(ms) |-> ms[i].calories])
        totalCaloriesBurnt == Reduce([i \in 1..Len(es) |-> es[i].calories_burnt])
        totalProtein == Reduce([i \in 1..Len(ms) |-> ms[i].protein])
        totalCarbs == Reduce([i \in 1..Len(ms) |-> ms[i].carbs])
        totalFat == Reduce([i \in 1..Len(ms) |-> ms[i].fat])
        totalExerciseDuration == Reduce([i \in 1..Len(es) |-> es[i].duration])
        \* in halves of a kcal
        netCalories == calculateNetCalories(totalCaloriesConsumed, 2 * totalCaloriesBurnt)
        complete == ProfileComplete(pf, wt)
        hasGoal == complete /\ pf[1].target_weight # 0 /\ pf[1].target_date # ""
        req == IF complete THEN calculateDailyCalorieRequirements(pf[1], wt[1])
               ELSE [bmr |-> [num |-> 0, den |-> 4], tdee |-> [nan |-> FALSE, value |-> 0]]
        targetDay == IF hasGoal THEN NewDate(pf[1].target_date)
                     ELSE [valid |-> TRUE, time |-> 0]
        \* Math.max(0, Math.ceil(...)); NaN for an Invalid Date, and NaN || undefined
        daysUntilTarget ==
            IF hasGoal /\ targetDay.valid
            THEN Max(0, MathCeil(targetDay.time - now, MsPerDay))
            ELSE 0
        goal == IF hasGoal
                THEN calculateTargetCaloriesForWeightGoal(
                         wt[1], pf[1].target_weight, pf[1].target_date, req.tdee.value, now)
                ELSE [path |-> "bmi", nan |-> FALSE, today |-> now,
                      value |-> IF complete
                                THEN calculateTargetCaloriesBasedOnBMI(
                                         wt[1], pf[1].height, req.tdee.value)
                                ELSE 0]
        calorieTarget == goal.value
        \* a NaN tdee makes every amount derived from it NaN
        targetIsNaN == goal.nan \/ req.tdee.nan
        \* in halves of a kcal
        calorieDeficit == IF complete THEN 2 * calorieTarget - netCalories ELSE 0
        estimatedWeightChange == estimateWeightChange([num |-> calorieDeficit, den |-> 2], 1)
    IN  [total_calories_consumed |-> MathRound(totalCaloriesConsumed, 2),
         total_calories_burnt |-> MathRound(totalCaloriesBurnt, 1),
         net_calories |-> MathRound(netCalories, 2),
         total_protein |-> MathRound(totalProtein, 1),
         total_carbs |-> MathRound(totalCarbs, 1),
         total_fat |-> MathRound(totalFat, 1),
         total_exercise_duration |-> MathRound(totalExerciseDuration, 1),
         bmr |-> MathRound(req.bmr.num, req.bmr.den),
         tdee |-> MathRound(req.tdee.value, 1),
         tdee_nan |-> req.tdee.nan,
         nan |-> targetIsNaN,
         calorie_target |-> IF targetIsNaN THEN 0 ELSE MathRound(calorieTarget, 1),
         calorie_deficit |-> IF targetIsNaN THEN 0 ELSE MathRound(calorieDeficit, 2),
         estimated_daily_weight_change |->
             IF targetIsNaN THEN ToFixed3(0, 1)
             ELSE ToFixed3(estimatedWeightChange.num, estimatedWeightChange.den),
         target_weight |-> IF pf = <<>> THEN <<>> ELSE OrUndefined(pf[1].target_weight, 0),
         current_weight |-> wt,
         target_date |-> IF pf = <<>> THEN <<>> ELSE OrUndefined(pf[1].target_date, ""),
         days_until_target |-> OrUndefined(daysUntilTarget, 0),
         today |-> now]

(***************************************************************************)
(* The monthly aggregator (src/src/lib/gemini.ts)                          *)
(***************************************************************************)

\* A variant without the sign test: the ratio of the magnitudes alone.
calculateAccuracyIndex_unsigned(actualWeightChange, theoreticalWeightChange) ==
    IF theoreticalWeightChange.num = 0
    THEN 100
    ELSE LET a == Abs(actualWeightChange.num) * theoreticalWeightChange.den
             t == Abs(theoreticalWeightChange.num) * actualWeightChange.den
         IN  MathRound(Min(a, t) * 100, Max(a, t))

\* Both arguments are fractions num/den of a kilogram; their magnitudes are
\* compared on the common denominator.
calculateAccuracyIndex(actualWeightChange, theoreticalWeightChange) ==
    IF theoreticalWeightChange.num = 0
    THEN 100
    ELSE IF \/ (actualWeightChange.num >= 0 /\ theoreticalWeightChange.num >= 0)
            \/ (actualWeightChange.num <= 0 /\ theoreticalWeightChange.num <= 0)
    THEN LET a == Abs(actualWeightChange.num) * theoreticalWeightChange.den
             t == Abs(theoreticalWeightChange.num) * actualWeightChange.den
         IN  MathRound(Min(a, t) * 100, Max(a, t))
    ELSE 0

\* The six running totals after the forEach over the day-buckets: each day's
\* entries are reduced to a day total, which is added to the month's total.
\* Consumed calories are in halves of a kcal.
RECURSIVE MonthTotals(_)
MonthTotals(days) ==
    IF days = <<>>
    THEN [consumed |-> 0, burnt |-> 0, protein |-> 0, carbs |-> 0, fat |-> 0,
          duration |-> 0]
    ELSE LET day == days[Len(days)]
             before == MonthTotals(SubSeq(days, 1, Len(days) - 1))
             ms == day.meals
             es == day.exercises
         IN  [consumed |-> before.consumed + Reduce([i \in 1..Len(ms) |-> ms[i].calories]),
              burnt |-> before.burnt + Reduce([i \in 1..Len(es) |-> es[i].calories_burnt]),
              protein |-> before.protein + Reduce([i \in 1..Len(ms) |-> ms[i].protein]),
              carbs |-> before.carbs + Reduce([i \in 1..Len(ms) |-> ms[i].carbs]),
              fat |-> before.fat + Reduce([i \in 1..Len(ms) |-> ms[i].fat]),
              duration |-> before.duration + Reduce([i \in 1..Len(es) |-> es[i].duration])]

\* the names of the month's meals in the order the nested forEach meets them
RECURSIVE MealNames(_)
MealNames(days) ==
    IF days = <<>> THEN <<>>
    ELSE [i \in 1..Len(days[1].meals) |-> days[1].meals[i].name] \o MealNames(Tail(days))

RECURSIVE ExerciseNames(_)
ExerciseNames(days) ==
    IF days = <<>> THEN <<>>
    ELSE [i \in 1..Len(days[1].exercises) |-> days[1].exercises[i].name]
           \o ExerciseNames(Tail(days))

\* counts.set(name, (counts.get(name) || 0) + 1) for each name in turn: a Map
\* keeps its keys in insertion order, so entries is a sequence of
\* <<name, count>> in the order the names were first met
RECURSIVE CountNames(_, _)
CountNames(names, entries) ==
    IF names = <<>> THEN entries
    ELSE LET name == names[1]
             at == {i \in 1..Len(entries) : entries[i][1] = name}
         IN  IF at = {}
             THEN CountNames(Tail(names), Append(entries, <<name, 1>>))
             ELSE LET i == CHOOSE j \in at : TRUE
                  IN  CountNames(Tail(names),
                                 [entries EXCEPT ![i] = <<name, entries[i][2] + 1>>])

\* A variant of the sort that puts an entry before those with an equal count.
RECURSIVE SortByCountDescending_unstable(_)
SortByCountDescending_unstable(entries) ==
    IF entries = <<>> THEN <<>>
    ELSE LET sorted == SortByCountDescending_unstable(SubSeq(entries, 1, Len(entries) - 1))
             last == entries[Len(entries)]
             before == {i \in 1..Len(sorted) : sorted[i][2] > last[2]}
             n == Cardinality(before)
         IN  SubSeq(sorted, 1, n) \o <<last>> \o SubSeq(sorted, n + 1, Len(sorted))

\* .sort((a, b) => b[1] - a[1]): Array.prototype.sort is stable, so entries
\* with equal counts keep their order.  Each entry is inserted behind the
\* entries whose count is not smaller.
RECURSIVE SortByCountDescending(_)
SortByCountDescending(entries) ==
    IF entries = <<>> THEN <<>>
    ELSE LET sorted == SortByCountDescending(SubSeq(entries, 1, Len(entries) - 1))
             last == entries[Len(entries)]
             before == {i \in 1..Len(sorted) : sorted[i][2] >= last[2]}
             n == Cardinality(before)
         IN  SubSeq(sorted, 1, n) \o <<last>> \o SubSeq(sorted, n + 1, Len(sorted))

\* Array.from(counts.entries()).sort(...).slice(0, 3).map(entry => entry[0])
MostCommon(names) ==
    LET sorted == SortByCountDescending(CountNames(names, <<>>))
        top == SubSeq(sorted, 1, Min(3, Len(sorted)))
    IN  [i \in 1..Len(top) |-> top[i][1]]

\* A variant with the daily convention: consumed minus burnt.
TheoreticalDailyDeficit_consumedMinusBurnt(totals, daysCount) ==
    [num |-> totals.consumed - 2 * totals.burnt, den |-> 2 * daysCount]

\* avgDailyCaloriesBurnt - avgDailyCaloriesConsumed, kcal per day as a fraction
TheoreticalDailyDeficit(totals, daysCount) ==
    [num |-> 2 * totals.burnt - totals.consumed, den |-> 2 * daysCount]

\* A variant that counts only the days that have a meal or an exercise.
DaysCount_withEntries(days) ==
    LET n == Cardinality({i \in 1..Len(days) :
                            days[i].meals # <<>> \/ days[i].exercises # <<>>})
    IN  IF n = 0 THEN 1 ELSE n

\* dailyData.length || 1
DaysCount(days) == IF Len(days) = 0 THEN 1 ELSE Len(days)

\* A variant that subtracts the other way round.
WeightChange_startMinusEnd(startW, endW) ==
    IF startW # <<>> /\ endW # <<>> THEN startW[1] - endW[1] ELSE 0

\* weightChange: endWeightData.weight - startWeightData.weight when both
\* entries are given, else the initial 0; in tenths of a kilogram
WeightChange(startW, endW) ==
    IF startW # <<>> /\ endW # <<>> THEN endW[1] - startW[1] ELSE 0

\* A variant that subtracts the two averages after rounding them.
AverageNetCalories_ofRounded(totals, daysCount) ==
    MathRound(totals.consumed, 2 * daysCount) - MathRound(totals.burnt, daysCount)

\* Math.round(avgNetCalories), where avgNetCalories = avgDailyCaloriesConsumed
\* - avgDailyCaloriesBurnt is the difference of the unrounded averages
AverageNetCalories(totals, daysCount) ==
    MathRound(totals.consumed - 2 * totals.burnt, 2 * daysCount)

\* generateMonthlySummary(dailyData, profile?, startWeightData?, endWeightData?);
\* the profile is never read.  weight_change is in tenths of a kilogram,
\* theoretical_weight_change a fraction of a kilogram.
generateMonthlySummary(days, startW, endW) ==
    LET totals == MonthTotals(days)
        daysCount == DaysCount(days)
        weightChange == WeightChange(startW, endW)
        theoreticalDailyDeficit == TheoreticalDailyDeficit(totals, daysCount)
        theoreticalWeightChange == estimateWeightChange(theoreticalDailyDeficit, daysCount)
    IN  [average_daily_calories_consumed |-> MathRound(totals.consumed, 2 * daysCount),
         average_daily_calories_burnt |-> MathRound(totals.burnt, daysCount),
         average_net_calories |-> AverageNetCalories(totals, daysCount),
         average_daily_protein |-> MathRound(totals.protein, daysCount),
         average_daily_carbs |-> MathRound(totals.carbs, daysCount),
         average_daily_fat |-> MathRound(totals.fat, daysCount),
         average_daily_exercise_duration |-> MathRound(totals.duration, daysCount),
         weight_change |-> weightChange,
         theoretical_weight_change |-> theoreticalWeightChange,
         accuracy_index |-> calculateAccuracyIndex([num |-> weightChange, den |-> 10],
                                                   theoreticalWeightChange),
         most_common_meals |-> MostCommon(MealNames(days)),
         most_common_exercises |-> MostCommon(ExerciseNames(days)),
         days_tracked |-> daysCount]

(***************************************************************************)
(* Direct calls of the goal resolver                                       *)
(***************************************************************************)

\* the clock advances in steps of half a day, MaxTicks times at most
MaxTicks == 6

ClockStep == MsPerDay \div 2

\* current and target weights, tenths of kg; 0 is "no target weight"
GoalCurrentWeights == {600, 705, 900}

GoalTargetWeights == {0, 650, 700, 905}

\* "" is "no target date"; "soon" is text new Date() cannot parse
GoalTargetDates == {"", "soon", "1970-01-02", "1970-01-03", "1970-01-05"}

\* calculateTDEE yields whole numbers; -58 is what it yields for a BMR of -48.5
GoalTdees == {0 - 58, 0, 1679, 2413}

InitGoal ==
    /\ today = 0
    /\ goalArgs \in [currentWeight : GoalCurrentWeights, targetWeight : GoalTargetWeights,
                     targetDate : GoalTargetDates, tdee : GoalTdees]
    /\ goalResult = <<>>
    /\ profile = <<>> /\ todayMeals = <<>> /\ todayExercises = <<>>
    /\ todayWeight = <<>> /\ daily = <<>>
    /\ dailyData = <<>> /\ startWeightData = <<>> /\ endWeightData = <<>>
    /\ monthly = <<>>
    /\ PageIdle
    /\ FormulaIdle
    /\ RouteIdle

Tick ==
    /\ today < MaxTicks * ClockStep
    /\ today' = today + ClockStep
    /\ UNCHANGED <<goalVars, dayVars, monthVars, pageVars, formulaVars, routeVars>>

CallTargetCaloriesForWeightGoal ==
    /\ goalResult' = <<calculateTargetCaloriesForWeightGoal(
                          goalArgs.currentWeight, goalArgs.targetWeight,
                          goalArgs.targetDate, goalArgs.tdee, today)>>
    /\ UNCHANGED <<today, goalArgs, dayVars, monthVars, pageVars, formulaVars, routeVars>>

NextGoal == Tick \/ CallTargetCaloriesForWeightGoal

SpecGoal == InitGoal /\ [][NextGoal]_vars

(***************************************************************************)
(* Properties of the goal resolver (checked under SpecGoal)                *)
(***************************************************************************)

\* v is num/den rounded to the nearest integer, halves upwards (den > 0)
IsRounded(v, num, den) == (2 * v - 1) * den <= 2 * num /\ 2 * num < (2 * v + 1) * den

\* d is the least integer >= num/den (den > 0)
IsCeiling(d, num, den) == (d - 1) * den < num /\ num <= d * den

\* the call's inputs form a dated plan whose date lies strictly after the call
DatedPlanAfterNow ==
    /\ goalResult # <<>>
    /\ goalArgs.targetWeight # 0
    /\ goalArgs.targetDate # ""
    /\ NewDate(goalArgs.targetDate).valid
    /\ NewDate(goalArgs.targetDate).time > goalResult[1].today

\* tdee + (targetWeight - currentWeight) * 7700 / days, as the fraction n/d
PlanNum(days) ==
    goalArgs.tdee * 10 * days
      + (goalArgs.targetWeight - goalArgs.currentWeight) * KcalPerKg

PlanDen(days) == 10 * days

\* C1: with target weight and target date present and the date strictly after
\* now, the result is max(1200, round(tdee + (targetWeight - currentWeight) *
\* 7700 / days)) with days = ceil((targetDate - now) / 1 day); it is never
\* below 1200.
C1_DeadlineTarget ==
    DatedPlanAfterNow =>
        LET r == goalResult[1]
            span == NewDate(goalArgs.targetDate).time - r.today
        IN  /\ r.path = "deadline"
            /\ ~r.nan
            /\ r.value >= 1200
            /\ \E days \in 1..(MaxTicks + 8) :
                 /\ IsCeiling(days, span, MsPerDay)
                 /\ IF r.value > 1200
                    THEN IsRounded(r.value, PlanNum(days), PlanDen(days))
                    \* clamped: the rounded plan is 1200 or less
                    ELSE 2 * PlanNum(days) < (2 * 1200 + 1) * PlanDen(days)

\* C1 witness: a dated plan whose unclamped value is below 1200 was computed
\* and came back as 1200.
C1_Witness ==
    /\ DatedPlanAfterNow
    /\ goalResult[1].value = 1200
    /\ \E days \in 1..(MaxTicks + 8) :
         /\ IsCeiling(days, NewDate(goalArgs.targetDate).time - goalResult[1].today, MsPerDay)
         /\ 2 * PlanNum(days) < (2 * 1200 - 1) * PlanDen(days)

\* C2 as claimed: on the fallback path, for currentWeight > 0, the goal is
\* loss/fast and the result is round(tdee - 750).
C2_FallbackIsLossFast ==
    (goalResult # <<>> /\ goalResult[1].path = "bmi" /\ goalArgs.currentWeight > 0) =>
        goalResult[1].value = goalArgs.tdee - 750

\* C2 (amended): on the fallback path the BMI resolver is called with height 0,
\* calculateBMI answers 0 for it, the goal resolves to gain/moderate (bmi <
\* 18.5), and the result is round(tdee + 500).
C2_FallbackIsGainModerate ==
    (goalResult # <<>> /\ goalResult[1].path = "bmi" /\ goalArgs.currentWeight > 0) =>
        /\ determineWeightGoalFromBMI(calculateBMI(goalArgs.currentWeight, 0))
             = [goal |-> "gain", rate |-> "moderate"]
        /\ ~goalResult[1].nan
        /\ goalResult[1].value = goalArgs.tdee + 500

\* C2 witness: a call without a target weight returned through the fallback.
C2_Witness ==
    /\ goalResult # <<>>
    /\ goalArgs.targetWeight = 0
    /\ goalArgs.currentWeight > 0
    /\ goalResult[1].path = "bmi"
    /\ goalResult[1].value = goalArgs.tdee + 500

MaxMeals == 2

MaxExercises == 1

\* the clock is read at one of the first MaxDailyTicks half-days
MaxDailyTicks == 2

\* meals as the meal form stores them: calories = Number(text) in halves of a
\* kcal (201 = 100.5 kcal), a macro left empty is null (0)
MealCatalogue ==
    {[name |-> "oats", calories |-> 201, protein |-> 0, carbs |-> 27, fat |-> 3],
     [name |-> "rice", calories |-> 4000, protein |-> 40, carbs |-> 440, fat |-> 6]}

\* exercises as the exercise form stores them (parseInt of both numbers)
ExerciseCatalogue ==
    {[name |-> "run", calories_burnt |-> 300, duration |-> 30]}

SeqsUpTo(S, n) == UNION {[1..k -> S] : k \in 0..n}

\* profiles rows: each field null ("" or 0) or set; "soon" is a target date
\* new Date() cannot parse
Profiles ==
    [height : {0, 50, 175}, age : {0, 80}, gender : {"", "male", "female"},
     activity_level : {"", "active"}, target_weight : {0, 650},
     target_date : {"", "soon", "1970-01-02", "1970-01-03"}]

\* weight entries of the day, tenths of kg
DayWeights == {200, 700}

InitDaily ==
    /\ today = 0
    /\ goalArgs = <<>> /\ goalResult = <<>>
    /\ profile \in {<<>>} \cup {<<p>> : p \in Profiles}
    /\ todayMeals \in SeqsUpTo(MealCatalogue, MaxMeals)
    /\ todayExercises \in SeqsUpTo(ExerciseCatalogue, MaxExercises)
    /\ todayWeight \in {<<>>} \cup {<<w>> : w \in DayWeights}
    /\ daily = <<>>
    /\ dailyData = <<>> /\ startWeightData = <<>> /\ endWeightData = <<>>
    /\ monthly = <<>>
    /\ PageIdle
    /\ FormulaIdle
    /\ RouteIdle

\* time passes before the summary is asked for
TickDaily ==
    /\ daily = <<>>
    /\ today < MaxDailyTicks * ClockStep
    /\ today' = today + ClockStep
    /\ UNCHANGED <<goalVars, dayVars, monthVars, pageVars, formulaVars, routeVars>>

\* A variant that keeps a running total between calls: a second call adds
\* the day's consumed calories to those of the summary before it.
GenerateDailySummary_accumulating ==
    /\ LET d == generateDailySummary(todayMeals, todayExercises, todayWeight, profile, today)
       IN  daily' = IF daily = <<>> THEN <<d>>
                    ELSE <<[d EXCEPT !.total_calories_consumed =
                                         @ + daily[1].total_calories_consumed]>>
    /\ UNCHANGED <<today, goalVars, profile, todayMeals, todayExercises, todayWeight,
                   monthVars, pageVars, formulaVars, routeVars>>

\* the summary is asked for, for the first time or again
GenerateDailySummary ==
    /\ daily' = <<generateDailySummary(todayMeals, todayExercises, todayWeight,
                                       profile, today)>>
    /\ UNCHANGED <<today, goalVars, profile, todayMeals, todayExercises, todayWeight,
                   monthVars, pageVars, formulaVars, routeVars>>

NextDaily == TickDaily \/ GenerateDailySummary

SpecDaily == InitDaily /\ [][NextDaily]_vars

(***************************************************************************)
(* Properties of the daily summarizer (checked under SpecDaily)            *)
(***************************************************************************)

\* the profile lacks one of height, age, gender, activity level, or there is
\* no profile or no weight entry
IncompleteInputs ==
    \/ profile = <<>>
    \/ todayWeight = <<>>
    \/ profile[1].height = 0
    \/ profile[1].age = 0
    \/ profile[1].gender = ""
    \/ profile[1].activity_level = ""

\* the day's logged totals: consumed in halves of a kcal, burnt in kcal
ConsumedHalves == Reduce([i \in 1..Len(todayMeals) |-> todayMeals[i].calories])

BurntKcal == Reduce([i \in 1..Len(todayExercises) |-> todayExercises[i].calories_burnt])

\* C4 as claimed: every calorie/weight output of a summary other than the
\* signed deltas (net_calories, calorie_deficit, weight changes) is
\* non-negative; in particular bmr, tdee and calorie_target are >= 0.
C4_OutputsNonNegative ==
    /\ monthly # <<>> =>
        LET m == monthly[1]
        IN  /\ m.average_daily_calories_consumed >= 0
            /\ m.average_daily_calories_burnt >= 0
            /\ m.average_daily_protein >= 0 /\ m.average_daily_carbs >= 0
            /\ m.average_daily_fat >= 0
            /\ m.average_daily_exercise_duration >= 0
            /\ m.accuracy_index >= 0
            /\ m.days_tracked >= 0
    /\ daily # <<>> =>
        LET d == daily[1]
        IN  /\ d.total_calories_consumed >= 0
            /\ d.total_calories_burnt >= 0
            /\ d.total_protein >= 0 /\ d.total_carbs >= 0 /\ d.total_fat >= 0
            /\ d.total_exercise_duration >= 0
            /\ d.bmr >= 0
            /\ d.tdee >= 0
            /\ (~d.nan => d.calorie_target >= 0)
            /\ (d.current_weight # <<>> => d.current_weight[1] >= 0)
            /\ (d.target_weight # <<>> => d.target_weight[1] >= 0)
            /\ (d.days_until_target # <<>> => d.days_until_target[1] >= 0)

HasDatedGoal ==
    /\ ~IncompleteInputs
    /\ profile[1].target_weight # 0 /\ profile[1].target_date # ""

\* a summary without the fields that the deadline computation feeds
WithoutDeadlineFields(d) ==
    [d EXCEPT !.today = 0, !.days_until_target = <<>>, !.nan = FALSE,
              !.calorie_target = 0, !.calorie_deficit = 0,
              !.estimated_daily_weight_change = ToFixed3(0, 1)]

\* C16: however often generateDailySummary has been called on these inputs,
\* the summary held is the one a call at the same instant returns (no hidden
\* state); a call at any other instant returns the same summary except for
\* days_until_target, calorie_target, calorie_deficit and the weight-change
\* estimate, and without a dated goal it returns the same summary entirely.
C16_Idempotent ==
    daily # <<>> =>
        LET d == daily[1]
        IN  /\ generateDailySummary(todayMeals, todayExercises, todayWeight, profile,
                                    d.today) = d
            /\ \A k \in 0..MaxDailyTicks :
                 LET o == generateDailySummary(todayMeals, todayExercises, todayWeight,
                                               profile, k * ClockStep)
                 IN  /\ WithoutDeadlineFields(o) = WithoutDeadlineFields(d)
                     /\ ~HasDatedGoal => [o EXCEPT !.today = d.today] = d

\* C16 witness: a summary for a dated goal, taken a day after the clock
\* started, that reports one day until the target where a call at the start
\* reports two.
C16_Witness ==
    /\ daily # <<>>
    /\ HasDatedGoal
    /\ daily[1].today = 2 * ClockStep
    /\ daily[1].days_until_target = <<1>>
    /\ generateDailySummary(todayMeals, todayExercises, todayWeight, profile, 0)
           .days_until_target = <<2>>
    /\ todayMeals # <<>>

(***************************************************************************)
(* Calls of the monthly aggregator                                         *)
(***************************************************************************)

\* a month of at most MaxDays tracked days, each with at most MaxDayEntries
\* meals and as many exercises
MaxDays == 2

MaxDayEntries == 1

\* 1540 halves = 770 kcal, a tenth of a kilogram
MonthMealCatalogue ==
    {[name |-> "oats", calories |-> 201, protein |-> 0, carbs |-> 27, fat |-> 3],
     [name |-> "rice", calories |-> 1540, protein |-> 16, carbs |-> 170, fat |-> 2]}

MonthExerciseCatalogue ==
    {[name |-> "run", calories_burnt |-> 770, duration |-> 60]}

DayBuckets ==
    [meals : SeqsUpTo(MonthMealCatalogue, MaxDayEntries),
     exercises : SeqsUpTo(MonthExerciseCatalogue, MaxDayEntries),
     weight : {<<>>}]

InitMonthly ==
    /\ today = 0
    /\ goalArgs = <<>> /\ goalResult = <<>>
    /\ profile = <<>> /\ todayMeals = <<>> /\ todayExercises = <<>>
    /\ todayWeight = <<>> /\ daily = <<>>
    /\ dailyData \in SeqsUpTo(DayBuckets, MaxDays)
    /\ startWeightData \in {<<>>, <<700>>}
    /\ endWeightData \in {<<>>, <<698>>, <<699>>, <<700>>, <<701>>, <<702>>}
    /\ monthly = <<>>
    /\ PageIdle
    /\ FormulaIdle
    /\ RouteIdle

\* A variant that reverses the caller's dailyData array in place while it
\* summarises it.
GenerateMonthlySummary_reversesInPlace ==
    /\ monthly = <<>>
    /\ monthly' = <<generateMonthlySummary(dailyData, startWeightData, endWeightData)>>
    /\ dailyData' = [i \in 1..Len(dailyData) |-> dailyData[Len(dailyData) + 1 - i]]
    /\ UNCHANGED <<today, goalVars, dayVars, startWeightData, endWeightData,
                   pageVars, formulaVars, routeVars>>

GenerateMonthlySummary ==
    /\ monthly = <<>>
    /\ monthly' = <<generateMonthlySummary(dailyData, startWeightData, endWeightData)>>
    /\ UNCHANGED <<today, goalVars, dayVars, dailyData, startWeightData, endWeightData,
                   pageVars, formulaVars, routeVars>>

\* the caller drops the summary it was given
DiscardMonthlySummary ==
    /\ monthly # <<>>
    /\ monthly' = <<>>
    /\ UNCHANGED <<today, goalVars, dayVars, dailyData, startWeightData, endWeightData,
                   pageVars, formulaVars, routeVars>>

NextMonthly == GenerateMonthlySummary \/ DiscardMonthlySummary

SpecMonthly == InitMonthly /\ [][NextMonthly]_vars

\* the state holds no arguments or result of the monthly aggregator
NoMonthlyCall ==
    dailyData = <<>> /\ startWeightData = <<>> /\ endWeightData = <<>> /\ monthly = <<>>

\* the state holds no arguments or result of the daily summarizer
NoDailyCall ==
    /\ profile = <<>> /\ todayMeals = <<>> /\ todayExercises = <<>>
    /\ todayWeight = <<>> /\ daily = <<>>

NextSummaries == (NoMonthlyCall /\ NextDaily) \/ (NoDailyCall /\ NextMonthly)

\* Both summarizers: the behaviours of SpecDaily together with those of
\* SpecMonthly
SpecSummaries == (InitDaily \/ InitMonthly) /\ [][NextSummaries]_vars

\* C17: a call of generateDailySummary or generateMonthlySummary leaves the
\* caller's meals, exercises, weight, profile and dailyData (and the two
\* weight entries) as they were, order included, and retains nothing: the
\* summary held is always the one a fresh call on the arguments returns.
C17_SideEffectFree ==
    /\ [][(daily' # daily \/ monthly' # monthly) =>
            UNCHANGED <<profile, todayMeals, todayExercises, todayWeight, dailyData,
                        startWeightData, endWeightData>>]_vars
    /\ [](monthly # <<>> =>
            monthly[1] = generateMonthlySummary(dailyData, startWeightData, endWeightData))
    /\ [](daily # <<>> =>
            daily[1] = generateDailySummary(todayMeals, todayExercises, todayWeight,
                                            profile, daily[1].today))

\* C17 witness: a monthly summary has been returned for two different
\* day-buckets, whose order a mutation would show.
C17_Witness ==
    /\ monthly # <<>>
    /\ Len(dailyData) = 2
    /\ dailyData[1] # dailyData[2]
    /\ dailyData[1].meals # <<>>

\* Months with many names: the first day holds at most MaxCommonMeals meals
MaxCommonMeals == 3

\* a logged meal / exercise of the given name
CommonMeal(name) == [name |-> name, calories |-> 201, protein |-> 0, carbs |-> 27, fat |-> 3]

CommonExercise(name) == [name |-> name, calories_burnt |-> 300, duration |-> 30]

CommonMealNames == {"oats", "rice", "soup", "tea"}

\* the meals of the second day, by name
SecondDayMealNames ==
    {<<>>, <<"tea", "tea">>, <<"soup", "rice", "oats">>, <<"tea", "soup">>}

\* the exercises of the first day, by name
FirstDayExerciseNames ==
    {<<>>, <<"run">>, <<"swim", "run", "swim">>,
     <<"walk", "run", "swim", "lift", "lift">>}

InitCommon ==
    /\ today = 0
    /\ goalArgs = <<>> /\ goalResult = <<>>
    /\ profile = <<>> /\ todayMeals = <<>> /\ todayExercises = <<>>
    /\ todayWeight = <<>> /\ daily = <<>>
    /\ \E first \in SeqsUpTo(CommonMealNames, MaxCommonMeals),
          second \in SecondDayMealNames, done \in FirstDayExerciseNames :
         dailyData =
           <<[meals |-> [i \in 1..Len(first) |-> CommonMeal(first[i])],
              exercises |-> [i \in 1..Len(done) |-> CommonExercise(done[i])],
              weight |-> <<>>],
             [meals |-> [i \in 1..Len(second) |-> CommonMeal(second[i])],
              exercises |-> <<>>,
              weight |-> <<>>]>>
    /\ startWeightData = <<>> /\ endWeightData = <<>>
    /\ monthly = <<>>
    /\ PageIdle
    /\ FormulaIdle
    /\ RouteIdle

SpecCommon == InitCommon /\ [][NextMonthly]_vars

(***************************************************************************)
(* SpecAverages: the monthly aggregator on entries with whole-number       *)
(* calories                                                                *)
(***************************************************************************)

\* 156 halves = 78 kcal, 1540 halves = 770 kcal
WholeMealCatalogue ==
    {[name |-> "egg", calories |-> 156, protein |-> 6, carbs |-> 1, fat |-> 5],
     [name |-> "rice", calories |-> 1540, protein |-> 16, carbs |-> 170, fat |-> 2]}

WholeExerciseCatalogue ==
    {[name |-> "walk", calories_burnt |-> 151, duration |-> 30]}

WholeDayBuckets ==
    [meals : SeqsUpTo(WholeMealCatalogue, MaxDayEntries),
     exercises : SeqsUpTo(WholeExerciseCatalogue, MaxDayEntries),
     weight : {<<>>}]

InitAverages ==
    /\ today = 0
    /\ goalArgs = <<>> /\ goalResult = <<>>
    /\ profile = <<>> /\ todayMeals = <<>> /\ todayExercises = <<>>
    /\ todayWeight = <<>> /\ daily = <<>>
    /\ dailyData \in SeqsUpTo(WholeDayBuckets, MaxDays)
    /\ startWeightData \in {<<>>, <<700>>}
    /\ endWeightData \in {<<>>, <<700>>}
    /\ monthly = <<>>
    /\ PageIdle
    /\ FormulaIdle
    /\ RouteIdle

SpecAverages == InitAverages /\ [][NextMonthly]_vars

(***************************************************************************)
(* app/(dashboard)/reports/page.tsx: fetchData, and the report functions   *)
(* of lib/gemini it awaits                                                 *)
(***************************************************************************)

\* the model's months have MonthDays days
MonthDays == 3

\* at most MaxRows meals are stored
MaxRows == 2

\* local midnight of the day of instant t (the page's time zone is taken
\* to be UTC)
StartOfDay(t) == (t \div MsPerDay) * MsPerDay

\* new Date(year, month, 1)
StartOfMonth(t) == (t \div (MonthDays * MsPerDay)) * (MonthDays * MsPerDay)

\* new Date(year, month + 1, 0): midnight at the start of the month's last day
EndOfMonth(t) == StartOfMonth(t) + (MonthDays - 1) * MsPerDay

\* .gte('created_at', from).lt('created_at', to), rows kept in table order
RangeQuery(table, from, to) ==
    LET InRange(r) == r.created_at >= from /\ r.created_at < to
    IN  SelectSeq(table, InRange)

\* A variant of the bucket test that also takes the instant the day ends.
InDay_inclusive(r, dayStart, dayEnd) ==
    r.created_at >= dayStart /\ r.created_at <= dayEnd

\* new Date(r.created_at) >= dayStart && new Date(r.created_at) < dayEnd
InDay(r, dayStart, dayEnd) ==
    r.created_at >= dayStart /\ r.created_at < dayEnd

\* the bucket of the day that starts at dayStart
DayBucket(ms, es, ws, dayStart) ==
    LET dayEnd == dayStart + MsPerDay
        OfDay(r) == InDay(r, dayStart, dayEnd)
        dayWeights == SelectSeq(ws, OfDay)
    IN  [meals |-> SelectSeq(ms, OfDay),
         exercises |-> SelectSeq(es, OfDay),
         \* Array.find: the first match, or undefined
         weight |-> IF dayWeights = <<>> THEN <<>> ELSE <<dayWeights[1]>>]

\* the while loop from currentDate to endOfMonth: a day is pushed when it has
\* a meal, an exercise or a weight
RECURSIVE GroupByDay(_, _, _, _, _)
GroupByDay(ms, es, ws, currentDate, endOfMonth) ==
    IF currentDate > endOfMonth
    THEN <<>>
    ELSE LET b == DayBucket(ms, es, ws, currentDate)
             rest == GroupByDay(ms, es, ws, currentDate + MsPerDay, endOfMonth)
         IN  IF b.meals # <<>> \/ b.exercises # <<>> \/ b.weight # <<>>
             THEN <<b>> \o rest
             ELSE rest

\* instants at which rows were created: the first midnight of the month, noon
\* of the first day, the second midnight, the midnight that starts the last
\* day, noon of the last day
CreatedAts ==
    {0, ClockStep, MsPerDay, (MonthDays - 1) * MsPerDay,
     (MonthDays - 1) * MsPerDay + ClockStep}

MealRows ==
    {[name |-> m.name, calories |-> m.calories, protein |-> m.protein,
      carbs |-> m.carbs, fat |-> m.fat, created_at |-> t] :
        m \in MealCatalogue, t \in CreatedAts}

Ascending(rows) ==
    \A i \in 1..(Len(rows) - 1) : rows[i].created_at <= rows[i + 1].created_at

ExerciseTables ==
    {<<>>,
     <<[name |-> "run", calories_burnt |-> 300, duration |-> 30, created_at |-> ClockStep]>>,
     <<[name |-> "run", calories_burnt |-> 300, duration |-> 30, created_at |-> MsPerDay],
       [name |-> "swim", calories_burnt |-> 450, duration |-> 45,
        created_at |-> (MonthDays - 1) * MsPerDay + ClockStep]>>}

WeightTables ==
    {<<>>,
     <<[weight |-> 700, created_at |-> 0], [weight |-> 690, created_at |-> ClockStep]>>,
     <<[weight |-> 700, created_at |-> ClockStep],
       [weight |-> 695, created_at |-> (MonthDays - 1) * MsPerDay + ClockStep]>>}

InitReport ==
    /\ today \in {ClockStep, 3 * ClockStep}
    /\ goalArgs = <<>> /\ goalResult = <<>>
    /\ profile = <<>> /\ todayMeals = <<>> /\ todayExercises = <<>>
    /\ todayWeight = <<>> /\ daily = <<>>
    /\ dailyData = <<>> /\ startWeightData = <<>> /\ endWeightData = <<>>
    /\ monthly = <<>>
    /\ user \in BOOLEAN
    /\ genAI \in BOOLEAN
    /\ mealsTable \in {t \in SeqsUpTo(MealRows, MaxRows) : Ascending(t)}
    /\ exercisesTable \in ExerciseTables
    /\ weightsTable \in WeightTables
    /\ pc = "start"
    /\ monthlyMeals = <<>> /\ monthlyExercises = <<>> /\ monthlyWeights = <<>>
    /\ dailyReport = <<>> /\ monthlyReport = <<>>
    /\ isLoading = TRUE
    /\ FormulaIdle
    /\ RouteIdle

unchangedByPage == <<today, goalVars, profile, daily, startWeightData, endWeightData,
                     monthly, user, genAI, mealsTable, exercisesTable, weightsTable,
                     formulaVars, routeVars>>

\* getUser() yields no user: router.push('/sign-in'), return, finally
FetchNoUser ==
    /\ pc = "start" /\ ~user
    /\ pc' = "done"
    /\ isLoading' = FALSE
    /\ UNCHANGED <<unchangedByPage, todayMeals, todayExercises, todayWeight, dailyData,
                   monthlyMeals, monthlyExercises, monthlyWeights, dailyReport,
                   monthlyReport>>

\* the queries for today and for the month, and the grouping by day
FetchRecords ==
    /\ pc = "start" /\ user
    /\ LET startOfDay == StartOfDay(today)
           endOfDay == StartOfDay(today) + MsPerDay
           startOfMonth == StartOfMonth(today)
           endOfMonth == EndOfMonth(today)
           ms == RangeQuery(mealsTable, startOfMonth, endOfMonth)
           es == RangeQuery(exercisesTable, startOfMonth, endOfMonth)
           ws == RangeQuery(weightsTable, startOfMonth, endOfMonth)
           tw == RangeQuery(weightsTable, startOfDay, endOfDay)
       IN  /\ todayMeals' = RangeQuery(mealsTable, startOfDay, endOfDay)
           /\ todayExercises' = RangeQuery(exercisesTable, startOfDay, endOfDay)
           \* descending order, limit 1
           /\ todayWeight' = IF tw = <<>> THEN <<>> ELSE <<tw[Len(tw)].weight>>
           /\ monthlyMeals' = ms
           /\ monthlyExercises' = es
           /\ monthlyWeights' = ws
           /\ dailyData' = GroupByDay(ms, es, ws, startOfMonth, endOfMonth)
    /\ pc' = "daily"
    /\ UNCHANGED <<unchangedByPage, dailyReport, monthlyReport, isLoading>>

\* generateDailyReport returns: the model's JSON parsed, or null when the text
\* is not JSON; setDailyReport stores it
DailyReportReturns ==
    /\ pc = "daily" /\ genAI
    /\ \E text \in {"json", "prose"} :
         dailyReport' = IF text = "json" THEN <<[origin |-> "gemini"]>> ELSE <<>>
    /\ pc' = "monthly"
    /\ UNCHANGED <<unchangedByPage, todayMeals, todayExercises, todayWeight, dailyData,
                   monthlyMeals, monthlyExercises, monthlyWeights, monthlyReport,
                   isLoading>>

\* generateDailyReport throws (no client configured, or generateContent
\* fails and is rethrown): fetchData's catch logs it, finally ends the loading
DailyReportThrows ==
    /\ pc = "daily"
    /\ pc' = "done"
    /\ isLoading' = FALSE
    /\ UNCHANGED <<unchangedByPage, todayMeals, todayExercises, todayWeight, dailyData,
                   monthlyMeals, monthlyExercises, monthlyWeights, dailyReport,
                   monthlyReport>>

MonthlyReportReturns ==
    /\ pc = "monthly" /\ genAI
    /\ \E text \in {"json", "prose"} :
         monthlyReport' = IF text = "json" THEN <<[origin |-> "gemini"]>> ELSE <<>>
    /\ pc' = "done"
    /\ isLoading' = FALSE
    /\ UNCHANGED <<unchangedByPage, todayMeals, todayExercises, todayWeight, dailyData,
                   monthlyMeals, monthlyExercises, monthlyWeights, dailyReport>>

MonthlyReportThrows ==
    /\ pc = "monthly"
    /\ pc' = "done"
    /\ isLoading' = FALSE
    /\ UNCHANGED <<unchangedByPage, todayMeals, todayExercises, todayWeight, dailyData,
                   monthlyMeals, monthlyExercises, monthlyWeights, dailyReport,
                   monthlyReport>>

NextReport ==
    \/ FetchNoUser
    \/ FetchRecords
    \/ DailyReportReturns
    \/ DailyReportThrows
    \/ MonthlyReportReturns
    \/ MonthlyReportThrows

SpecReport == InitReport /\ [][NextReport]_vars

(***************************************************************************)
(* Direct calls of the formulas of lib/calories.ts                         *)
(***************************************************************************)

\* calculateBMR(weight, height, age, gender); "Male" is not 'male'
BMRCalls ==
    [fn : {"calculateBMR"}, weight : {0, 200, 700}, height : {0, 50, 175},
     age : {0, 30, 80}, gender : {"", "male", "female", "Male"}]

\* calculateTDEE(bmr, activityLevel): bmr in quarters of a kcal (1648.75,
\* 117.5, -48.5, 0); "extreme" is no key of the table, "constructor" an
\* inherited one
TDEECalls ==
    [fn : {"calculateTDEE"}, bmr : {0, 6595, 470, 0 - 194},
     activityLevel : {"", "sedentary", "light", "moderate", "active", "very_active",
                      "extreme", "constructor"}]

\* calculateExerciseCalories(weight, duration, intensity, exerciseType)
ExerciseCaloriesCalls ==
    [fn : {"calculateExerciseCalories"}, weight : {0, 700}, duration : {0, 30, 45},
     intensity : {"low", "moderate", "high", "extreme", "toString"},
     exerciseType : {"general", "walking", "cycling", "swimming", "strength", "running",
                     "constructor"}]

\* calculateTargetCaloriesBasedOnBMI(weight, height, tdee): at a height of
\* 100 cm the BMI is the weight in kg, so 18.4, 18.5, 24.9, 25, 29.9 and 30
\* are all met
BMITargetCalls ==
    [fn : {"calculateTargetCaloriesBasedOnBMI"},
     weight : {184, 185, 249, 250, 299, 300, 700, 900}, height : {100, 175},
     tdee : GoalTdees]

\* calculateCaloriesForGoal(tdee, goal, rate)
CaloriesForGoalCalls ==
    [fn : {"calculateCaloriesForGoal"}, tdee : GoalTdees,
     goal : {"loss", "maintain", "gain"}, rate : {"slow", "moderate", "fast"}]

\* calculateTargetCaloriesForWeightGoal(currentWeight, targetWeight, targetDate, tdee)
WeightGoalCalls ==
    [fn : {"calculateTargetCaloriesForWeightGoal"}, currentWeight : GoalCurrentWeights,
     targetWeight : GoalTargetWeights, targetDate : GoalTargetDates, tdee : GoalTdees]

InitFormulas ==
    /\ today = 0
    /\ goalArgs = <<>> /\ goalResult = <<>>
    /\ profile = <<>> /\ todayMeals = <<>> /\ todayExercises = <<>>
    /\ todayWeight = <<>> /\ daily = <<>>
    /\ dailyData = <<>> /\ startWeightData = <<>> /\ endWeightData = <<>>
    /\ monthly = <<>>
    /\ PageIdle
    /\ RouteIdle
    /\ \/ call \in BMRCalls
       \/ call \in TDEECalls
       \/ call \in ExerciseCaloriesCalls
       \/ call \in BMITargetCalls
       \/ call \in CaloriesForGoalCalls
       \/ call \in WeightGoalCalls
    /\ result = <<>>

\* the called formula returns v
Returns(fn, v) ==
    /\ call.fn = fn
    /\ result = <<>>
    /\ result' = <<v>>
    /\ UNCHANGED <<today, goalVars, dayVars, monthVars, pageVars, call,
                   routeVars>>

CallBMR ==
    /\ call.fn = "calculateBMR"
    /\ Returns("calculateBMR",
               calculateBMR(call.weight, call.height, call.age, call.gender))

CallTDEE ==
    /\ call.fn = "calculateTDEE"
    /\ Returns("calculateTDEE",
               calculateTDEE([num |-> call.bmr, den |-> 4], call.activityLevel))

CallExerciseCalories ==
    /\ call.fn = "calculateExerciseCalories"
    /\ Returns("calculateExerciseCalories",
               calculateExerciseCalories(call.weight, call.duration, call.intensity,
                                         call.exerciseType))

CallTargetCaloriesBasedOnBMI ==
    /\ call.fn = "calculateTargetCaloriesBasedOnBMI"
    /\ Returns("calculateTargetCaloriesBasedOnBMI",
               calculateTargetCaloriesBasedOnBMI(call.weight, call.height, call.tdee))

CallCaloriesForGoal ==
    /\ call.fn = "calculateCaloriesForGoal"
    /\ Returns("calculateCaloriesForGoal",
               calculateCaloriesForGoal(call.tdee, call.goal, call.rate))

CallWeightGoal ==
    /\ call.fn = "calculateTargetCaloriesForWeightGoal"
    /\ Returns("calculateTargetCaloriesForWeightGoal",
               calculateTargetCaloriesForWeightGoal(
                   call.currentWeight, call.targetWeight, call.targetDate, call.tdee,
                   today))

NextFormulas ==
    \/ CallBMR
    \/ CallTDEE
    \/ CallExerciseCalories
    \/ CallTargetCaloriesBasedOnBMI
    \/ CallCaloriesForGoal
    \/ CallWeightGoal

SpecFormulas == InitFormulas /\ [][NextFormulas]_vars

(***************************************************************************)
(* Properties of the monthly aggregator (checked under SpecMonthly)        *)
(***************************************************************************)

\* every meal / exercise of every bucket, in bucket order
RECURSIVE AllMeals(_)
AllMeals(days) == IF days = <<>> THEN <<>> ELSE days[1].meals \o AllMeals(Tail(days))

RECURSIVE AllExercises(_)
AllExercises(days) ==
    IF days = <<>> THEN <<>> ELSE days[1].exercises \o AllExercises(Tail(days))

\* the month's burnt minus consumed, in halves of a kcal, summed entry by entry
BurntMinusConsumedHalves ==
    2 * Reduce([i \in 1..Len(AllExercises(dailyData)) |->
                   AllExercises(dailyData)[i].calories_burnt])
      - Reduce([i \in 1..Len(AllMeals(dailyData)) |-> AllMeals(dailyData)[i].calories])

\* C7: accuracy_index is 100 when the theoretical change is exactly 0;
\* otherwise round(min(|a|,|t|) / max(|a|,|t|) * 100) when actual and
\* theoretical have the same sign, and 0 when the signs are opposite; it is
\* always an integer in 0..100.
C7_AccuracyIndex ==
    monthly # <<>> =>
        LET m == monthly[1]
            a == m.weight_change
            t == m.theoretical_weight_change
            \* |a| and |t| on the common denominator 10 * t.den
            aa == Abs(a) * t.den
            tt == Abs(t.num) * 10
        IN  /\ m.accuracy_index \in 0..100
            /\ t.num = 0 => m.accuracy_index = 100
            /\ (t.num # 0 /\ ((a >= 0 /\ t.num > 0) \/ (a <= 0 /\ t.num < 0))) =>
                 IsRounded(m.accuracy_index, Min(aa, tt) * 100, Max(aa, tt))
            /\ ((a > 0 /\ t.num < 0) \/ (a < 0 /\ t.num > 0)) => m.accuracy_index = 0

\* C7 witness: a summary whose actual and theoretical changes have the same
\* sign and differ, so the index is strictly between 0 and 100.
C7_Witness ==
    /\ monthly # <<>>
    /\ monthly[1].weight_change < 0
    /\ monthly[1].theoretical_weight_change.num < 0
    /\ monthly[1].accuracy_index \in 1..99

\* a complete profile without a dated goal, and a weight entry, for the daily
\* summarizer run on a bucket of the month
ReferenceProfile ==
    [height |-> 175, age |-> 80, gender |-> "male", activity_level |-> "active",
     target_weight |-> 0, target_date |-> ""]

\* the daily summarizer's deficit for bucket i is target - (consumed - burnt)
DailyDeficitConvention(i) ==
    LET ms == dailyData[i].meals
        es == dailyData[i].exercises
        d == generateDailySummary(ms, es, <<700>>, <<ReferenceProfile>>, today)
        net2 == Reduce([k \in 1..Len(ms) |-> ms[k].calories])
                  - 2 * Reduce([k \in 1..Len(es) |-> es[k].calories_burnt])
    IN  /\ IsRounded(d.net_calories, net2, 2)
        /\ IsRounded(d.calorie_deficit, 2 * d.calorie_target - net2, 2)

\* C8: theoretical_weight_change = (avgBurnt - avgConsumed) * dayCount / 7700,
\* which is the month's (burnt - consumed) / 7700: positive exactly when more
\* was burnt than consumed.  The daily summarizer counts the other way round:
\* its net is consumed - burnt and its calorie_deficit is target - net.
C8_TheoreticalChangeSign ==
    monthly # <<>> =>
        LET t == monthly[1].theoretical_weight_change
        IN  /\ t.den > 0
            \* t = (burnt - consumed) / 7700, both sides in halves of a kcal
            /\ t.num * 2 * KcalPerKg = BurntMinusConsumedHalves * t.den
            /\ (t.num > 0) = (BurntMinusConsumedHalves > 0)
            /\ (t.num < 0) = (BurntMinusConsumedHalves < 0)
            /\ \A i \in 1..Len(dailyData) : DailyDeficitConvention(i)

\* C8 witness: a summary of two tracked days on which more was burnt than
\* consumed.
C8_Witness ==
    /\ monthly # <<>>
    /\ Len(dailyData) = 2
    /\ AllMeals(dailyData) # <<>>
    /\ BurntMinusConsumedHalves > 0
    /\ monthly[1].theoretical_weight_change.num > 0

(***************************************************************************)
(* Properties of the reports page (checked under SpecReport)               *)
(***************************************************************************)

\* how many times row r occurs in the sequence rows
Occurrences(r, rows) == Cardinality({i \in 1..Len(rows) : rows[i] = r})

\* the sum of one numeric column of the fetched meals
MealColumn(F(_)) == Reduce([i \in 1..Len(monthlyMeals) |-> F(monthlyMeals[i])])

\* the sum of one numeric column of the fetched exercises
ExerciseColumn(F(_)) == Reduce([i \in 1..Len(monthlyExercises) |-> F(monthlyExercises[i])])

\* C6 as claimed: whatever the insight generator does (unconfigured, throws,
\* text that is not JSON), once fetchData has finished for a signed-in user
\* the daily and the monthly report both hold the summary computed by the
\* core, and a failed daily report does not stop the monthly report.
C6_GracefulDegradation ==
    (pc = "done" /\ user) =>
        /\ dailyReport # <<>> /\ dailyReport[1].origin = "core"
        /\ monthlyReport # <<>> /\ monthlyReport[1].origin = "core"

\* C9: once the month's records are fetched and grouped, the six totals the
\* monthly aggregator accumulates over the day-buckets equal the sums over
\* the fetched meals and exercises themselves, and every fetched record is in
\* exactly one day-bucket (and the buckets hold nothing that was not fetched).
C9_BucketsPreserveRecords ==
    (pc # "start" /\ user) =>
        LET totals == MonthTotals(dailyData)
            Calories(m) == m.calories
            Protein(m) == m.protein
            Carbs(m) == m.carbs
            Fat(m) == m.fat
            Burnt(x) == x.calories_burnt
            Duration(x) == x.duration
        IN  /\ totals.consumed = MealColumn(Calories)
            /\ totals.protein = MealColumn(Protein)
            /\ totals.carbs = MealColumn(Carbs)
            /\ totals.fat = MealColumn(Fat)
            /\ totals.burnt = ExerciseColumn(Burnt)
            /\ totals.duration = ExerciseColumn(Duration)
            /\ Len(AllMeals(dailyData)) = Len(monthlyMeals)
            /\ Len(AllExercises(dailyData)) = Len(monthlyExercises)
            /\ \A i \in 1..Len(monthlyMeals) :
                   Occurrences(monthlyMeals[i], AllMeals(dailyData))
                     = Occurrences(monthlyMeals[i], monthlyMeals)
            /\ \A i \in 1..Len(monthlyExercises) :
                   Occurrences(monthlyExercises[i], AllExercises(dailyData))
                     = Occurrences(monthlyExercises[i], monthlyExercises)

\* C9 witness: a fetched month whose records fall on two days, one meal
\* created exactly at the midnight between them, with an exercise among them.
C9_Witness ==
    /\ pc # "start" /\ user
    /\ Len(dailyData) = 2
    /\ Len(monthlyMeals) = 2
    /\ monthlyExercises # <<>>
    /\ \E i \in 1..Len(monthlyMeals) : monthlyMeals[i].created_at = MsPerDay

(***************************************************************************)
(* Properties of the formulas (checked under SpecFormulas)                 *)
(***************************************************************************)

\* the call of formula fn has returned
Returned(fn) == call # <<>> /\ call.fn = fn /\ result # <<>>

\* weight / (height/100)^2 < n/2, for a weight in tenths of kg and a height in cm
BMIOfCallBelowHalves(n) == 2 * call.weight * 1000 < n * call.height * call.height

\* C11: for weight > 0 and height > 0 calculateTargetCaloriesBasedOnBMI returns
\* round(tdee + adj) with adj = +500 for bmi < 18.5, 0 for 18.5 <= bmi < 25,
\* -500 for 25 <= bmi < 30 and -750 for bmi >= 30; exactly one of the four
\* ranges holds the bmi; and calculateCaloriesForGoal adjusts by 0 for the
\* goal 'maintain' at every rate.
C11_TargetFromBMI ==
    /\ (Returned("calculateTargetCaloriesBasedOnBMI") /\ call.weight > 0 /\ call.height > 0) =>
        LET under == BMIOfCallBelowHalves(37)
            normal == ~BMIOfCallBelowHalves(37) /\ BMIOfCallBelowHalves(50)
            over == ~BMIOfCallBelowHalves(50) /\ BMIOfCallBelowHalves(60)
            obese == ~BMIOfCallBelowHalves(60)
            adj == IF under THEN 500 ELSE IF normal THEN 0 ELSE IF over THEN 0 - 500
                   ELSE 0 - 750
        IN  /\ IsRounded(result[1], call.tdee + adj, 1)
            /\ Cardinality({r \in {"under", "normal", "over", "obese"} :
                              \/ (r = "under" /\ under) \/ (r = "normal" /\ normal)
                              \/ (r = "over" /\ over) \/ (r = "obese" /\ obese)}) = 1
    /\ (Returned("calculateCaloriesForGoal") /\ call.goal = "maintain") =>
        result[1] = call.tdee

\* C11 witness: a call whose BMI is exactly 25 has returned tdee - 500.
C11_Witness ==
    /\ Returned("calculateTargetCaloriesBasedOnBMI")
    /\ call.weight = 250 /\ call.height = 100 /\ call.tdee = 1679
    /\ result[1] = 1179

\* C12: calculateBMR returns 0 when weight, height or age is 0 or the gender
\* is empty; otherwise 10*weight + 6.25*height - 5*age + 5 when the gender is
\* exactly 'male' and 10*weight + 6.25*height - 5*age - 161 for every other
\* gender.  Both sides are in quarters of a kcal; the weight is in tenths of
\* a kilogram.
C12_BMR ==
    Returned("calculateBMR") =>
        LET bmr == result[1]
            base == 4 * call.weight + 25 * call.height - 20 * call.age
        IN  /\ bmr.den = 4
            /\ (call.weight = 0 \/ call.height = 0 \/ call.age = 0 \/ call.gender = "") =>
                 bmr.num = 0
            /\ (call.weight # 0 /\ call.height # 0 /\ call.age # 0 /\ call.gender = "male") =>
                 bmr.num = base + 4 * 5
            /\ (call.weight # 0 /\ call.height # 0 /\ call.age # 0
                  /\ call.gender \notin {"", "male"}) =>
                 bmr.num = base - 4 * 161

\* C12 witness: male, 70 kg, 175 cm, 30 years has returned 1648.75.
C12_Witness ==
    /\ Returned("calculateBMR")
    /\ call.weight = 700 /\ call.height = 175 /\ call.age = 30
    /\ call.gender = "male"
    /\ result[1] = [num |-> 6595, den |-> 4]

\* the multiplier the table documents for a level, in thousandths: 1.2 for
\* every level that is not one of its five keys
DocumentedMultiplier(level) ==
    CASE level = "sedentary" -> 1200
      [] level = "light" -> 1375
      [] level = "moderate" -> 1550
      [] level = "active" -> 1725
      [] level = "very_active" -> 1900
      [] OTHER -> 1200

\* C13 as claimed: calculateTDEE returns 0 when bmr is 0 or the level is
\* missing, and otherwise round(bmr * m), halves upwards, with m from the
\* table and m = 1.2 for any unknown level.
C13_TDEE ==
    Returned("calculateTDEE") =>
        LET tdee == result[1]
        IN  /\ ~tdee.nan
            /\ (call.bmr = 0 \/ call.activityLevel = "") => tdee.value = 0
            /\ (call.bmr # 0 /\ call.activityLevel # "") =>
                 IsRounded(tdee.value, call.bmr * DocumentedMultiplier(call.activityLevel),
                           4 * 1000)

\* C14 as claimed: calculateExerciseCalories returns 0 when weight or duration
\* is 0, and otherwise round(MET * weight * duration / 60), with the 'general'
\* column for any type outside the five of the table and the 'moderate' row
\* for any intensity outside low, moderate, high.
C14_ExerciseCalories ==
    Returned("calculateExerciseCalories") =>
        LET kcal == result[1]
            type == IF call.exerciseType \in {"general", "walking", "cycling", "swimming",
                                               "strength"}
                    THEN call.exerciseType ELSE "general"
            level == IF call.intensity \in {"low", "moderate", "high"}
                     THEN call.intensity ELSE "moderate"
        IN  /\ ~kcal.nan
            /\ (call.weight = 0 \/ call.duration = 0) => kcal.value = 0
            /\ (call.weight # 0 /\ call.duration # 0) =>
                 IsRounded(kcal.value, metValues[level][type] * call.weight * call.duration,
                           10 * 10 * 60)

\* C15 as claimed: every formula returns a defined number for every input,
\* zero or missing numerics, unknown enum strings and unparseable target
\* dates included: no result is NaN.
C15_DefinedValue ==
    (call # <<>> /\ result # <<>>) =>
        /\ call.fn \in {"calculateTDEE", "calculateExerciseCalories",
                        "calculateTargetCaloriesForWeightGoal"} => ~result[1].nan
        /\ call.fn = "calculateBMR" => result[1].den > 0
        /\ call.fn \in {"calculateTargetCaloriesBasedOnBMI", "calculateCaloriesForGoal"} =>
             result[1] \in Int

\* the month's total of one column of the meals / of the exercises, summed
\* entry by entry
MonthMealColumn(F(_)) ==
    Reduce([i \in 1..Len(AllMeals(dailyData)) |-> F(AllMeals(dailyData)[i])])

MonthExerciseColumn(F(_)) ==
    Reduce([i \in 1..Len(AllExercises(dailyData)) |-> F(AllExercises(dailyData)[i])])

\* C18: every average of a MonthlySummary is round(total / max(1, n)) for n
\* day-buckets: a bucket without meals and exercises counts in n, and for no
\* buckets the denominator is 1 and every average is 0.
C18_AveragesOverDayCount ==
    monthly # <<>> =>
        LET m == monthly[1]
            n == IF Len(dailyData) >= 1 THEN Len(dailyData) ELSE 1
            Calories(x) == x.calories
            Protein(x) == x.protein
            Carbs(x) == x.carbs
            Fat(x) == x.fat
            Burnt(x) == x.calories_burnt
            Duration(x) == x.duration
        IN  /\ IsRounded(m.average_daily_calories_consumed, MonthMealColumn(Calories), 2 * n)
            /\ IsRounded(m.average_daily_calories_burnt, MonthExerciseColumn(Burnt), n)
            /\ IsRounded(m.average_net_calories,
                         MonthMealColumn(Calories) - 2 * MonthExerciseColumn(Burnt), 2 * n)
            /\ IsRounded(m.average_daily_protein, MonthMealColumn(Protein), n)
            /\ IsRounded(m.average_daily_carbs, MonthMealColumn(Carbs), n)
            /\ IsRounded(m.average_daily_fat, MonthMealColumn(Fat), n)
            /\ IsRounded(m.average_daily_exercise_duration, MonthExerciseColumn(Duration), n)
            /\ dailyData = <<>> =>
                 /\ m.average_daily_calories_consumed = 0
                 /\ m.average_daily_calories_burnt = 0
                 /\ m.average_net_calories = 0
                 /\ m.average_daily_protein = 0 /\ m.average_daily_carbs = 0
                 /\ m.average_daily_fat = 0
                 /\ m.average_daily_exercise_duration = 0

\* C18 witness: a summary of two buckets, one of them without any meal or
\* exercise, whose averages are half the totals of the other.
C18_Witness ==
    /\ monthly # <<>>
    /\ Len(dailyData) = 2
    /\ dailyData[2].meals = <<>> /\ dailyData[2].exercises = <<>>
    /\ dailyData[1].meals # <<>> /\ dailyData[1].exercises # <<>>
    /\ monthly[1].average_daily_calories_burnt = 385
    /\ monthly[1].average_daily_exercise_duration = 30

\* C19 as claimed: days_tracked is the number of day-buckets passed to
\* generateMonthlySummary, also when that number is 0.
C19_DaysTracked ==
    monthly # <<>> => monthly[1].days_tracked = Len(dailyData)

(***************************************************************************)
(* Properties of the most-common lists (checked under SpecCommon)          *)
(***************************************************************************)

\* how often name occurs in names, and where it occurs first
CountOf(name, names) == Cardinality({i \in 1..Len(names) : names[i] = name})

FirstOf(name, names) ==
    CHOOSE i \in 1..Len(names) :
        names[i] = name /\ \A j \in 1..(i - 1) : names[j] # name

\* list is the top three of names: min(3, distinct names) different names,
\* counts non-increasing, equal counts in first-met order, and no name left
\* out that occurs more often than a listed one
IsTopThree(list, names) ==
    LET distinct == {names[i] : i \in 1..Len(names)}
        listed == {list[i] : i \in 1..Len(list)}
    IN  /\ Len(list) = Min(3, Cardinality(distinct))
        /\ listed \subseteq distinct
        /\ Cardinality(listed) = Len(list)
        /\ \A i \in 1..Len(list) : \A j \in (i + 1)..Len(list) :
             /\ CountOf(list[i], names) >= CountOf(list[j], names)
             /\ CountOf(list[i], names) = CountOf(list[j], names) =>
                  FirstOf(list[i], names) < FirstOf(list[j], names)
        /\ \A x \in distinct \ listed : \A y \in listed :
             CountOf(x, names) <= CountOf(y, names)

\* C20: most_common_meals and most_common_exercises each list min(3, number
\* of distinct names) names in non-increasing order of their count over all
\* day-buckets; no omitted name occurs strictly more often than a listed one,
\* and names with equal counts appear in the order they were first met.
C20_MostCommon ==
    monthly # <<>> =>
        /\ IsTopThree(monthly[1].most_common_meals,
                      [i \in 1..Len(AllMeals(dailyData)) |-> AllMeals(dailyData)[i].name])
        /\ IsTopThree(monthly[1].most_common_exercises,
                      [i \in 1..Len(AllExercises(dailyData)) |->
                          AllExercises(dailyData)[i].name])

\* C20 witness: four meal names, the one met last occurring twice and so
\* listed first, the others once each with the last of them left out; and
\* likewise four exercise names.
C20_Witness ==
    /\ monthly # <<>>
    /\ MealNames(dailyData) = <<"oats", "rice", "soup", "tea", "tea">>
    /\ monthly[1].most_common_meals = <<"tea", "oats", "rice">>
    /\ monthly[1].most_common_exercises = <<"lift", "walk", "run">>

(***************************************************************************)
(* Further properties of the daily summarizer (checked under SpecDaily)    *)
(***************************************************************************)

\* C21 as claimed: for a complete profile with a weight entry and a target
\* date (one that new Date() can parse, next to a target weight),
\* days_until_target is reported and equals
\* max(0, ceil((targetDate - today) / 1 day)): never negative, and 0 when the
\* target date is today or past.
C21_DaysUntilTarget ==
    (daily # <<>> /\ HasDatedGoal /\ NewDate(profile[1].target_date).valid) =>
        LET d == daily[1]
            ms == NewDate(profile[1].target_date).time - d.today
        IN  /\ d.days_until_target # <<>>
            /\ d.days_until_target[1] >= 0
            /\ (ms <= 0 => d.days_until_target[1] = 0)
            /\ (ms > 0 => IsCeiling(d.days_until_target[1], ms, MsPerDay))

\* the profile's target date can be parsed and is not after the instant of
\* the summary
TargetDateReached ==
    /\ profile[1].target_date # ""
    /\ NewDate(profile[1].target_date).valid
    /\ NewDate(profile[1].target_date).time <= daily[1].today

\* C27: for a complete profile and a weight entry, the calorie_target of a
\* profile whose target_date is today or in the past is the one the same
\* profile gets with no target_date at all.
C27_ExpiredGoalAsNoGoal ==
    (daily # <<>> /\ ~IncompleteInputs /\ TargetDateReached) =>
        LET undated == [profile[1] EXCEPT !.target_date = ""]
            o == generateDailySummary(todayMeals, todayExercises, todayWeight,
                                      <<undated>>, daily[1].today)
        IN  /\ daily[1].nan = o.nan
            /\ daily[1].calorie_target = o.calorie_target

(***************************************************************************)
(* Further properties of the reports page (checked under SpecReport)       *)
(***************************************************************************)

\* C22 as claimed: when a day has several weight entries, the one with the
\* latest timestamp is used, for today's summary and for each day-bucket of
\* the month.
C22_LatestWeightPerDay ==
    (pc # "start" /\ user) =>
        /\ \A i \in 1..Len(weightsTable) :
             StartOfDay(weightsTable[i].created_at) = StartOfDay(today) =>
                 /\ todayWeight # <<>>
                 /\ \E j \in 1..Len(weightsTable) :
                      /\ StartOfDay(weightsTable[j].created_at) = StartOfDay(today)
                      /\ weightsTable[j].created_at >= weightsTable[i].created_at
                      /\ todayWeight[1] = weightsTable[j].weight
        /\ \A b \in 1..Len(dailyData) :
             dailyData[b].weight # <<>> =>
                 \A i \in 1..Len(monthlyWeights) :
                     StartOfDay(monthlyWeights[i].created_at)
                         = StartOfDay(dailyData[b].weight[1].created_at) =>
                       monthlyWeights[i].created_at <= dailyData[b].weight[1].created_at

\* the rows of a table created in the calendar month of the clock: from 00:00
\* on the 1st up to, not including, 00:00 on the 1st of the next month
OfCurrentMonth(table) ==
    LET InMonth(r) == /\ r.created_at >= StartOfMonth(today)
                      /\ r.created_at < StartOfMonth(today) + MonthDays * MsPerDay
    IN  SelectSeq(table, InMonth)

\* the weight entries the day-buckets carry, in bucket order
RECURSIVE AllWeights(_)
AllWeights(days) ==
    IF days = <<>> THEN <<>> ELSE days[1].weight \o AllWeights(Tail(days))

\* C28: every meal, exercise and weight record created in the current
\* calendar month, the month's last day included, is fetched for the monthly
\* report and sits in exactly one day-bucket.
C28_WholeMonthFetched ==
    (pc # "start" /\ user) =>
        /\ monthlyMeals = OfCurrentMonth(mealsTable)
        /\ monthlyExercises = OfCurrentMonth(exercisesTable)
        /\ monthlyWeights = OfCurrentMonth(weightsTable)
        /\ \A i \in 1..Len(mealsTable) :
               Occurrences(mealsTable[i], AllMeals(dailyData))
                 = Occurrences(mealsTable[i], OfCurrentMonth(mealsTable))
        /\ \A i \in 1..Len(exercisesTable) :
               Occurrences(exercisesTable[i], AllExercises(dailyData))
                 = Occurrences(exercisesTable[i], OfCurrentMonth(exercisesTable))
        /\ \A i \in 1..Len(weightsTable) :
               Occurrences(weightsTable[i], AllWeights(dailyData))
                 = Occurrences(weightsTable[i], OfCurrentMonth(weightsTable))

(***************************************************************************)
(* Further properties of the monthly aggregator (checked under SpecMonthly)*)
(***************************************************************************)

\* C23: weight_change is endWeight - startWeight when the first and the last
\* weight entry are both supplied, and 0 when either is missing.
C23_WeightChange ==
    monthly # <<>> =>
        /\ (startWeightData # <<>> /\ endWeightData # <<>>) =>
             monthly[1].weight_change = endWeightData[1] - startWeightData[1]
        /\ (startWeightData = <<>> \/ endWeightData = <<>>) =>
             monthly[1].weight_change = 0

\* C23 witness: a summary for a month that began at 70.0 kg and ended at
\* 69.8 kg reports -0.2 kg.
C23_Witness ==
    /\ monthly # <<>>
    /\ startWeightData = <<700>> /\ endWeightData = <<698>>
    /\ monthly[1].weight_change = 0 - 2

\* the month's logs and the scale agree: the measured change in kg (tenths
\* here) times 7700 is the consumed minus the burnt kcal (halves here)
EnergyBalanceMatchesScale ==
    /\ startWeightData # <<>> /\ endWeightData # <<>>
    /\ BurntMinusConsumedHalves * 5 = KcalPerKg * (startWeightData[1] - endWeightData[1])

\* C26: when the month's logged energy balance and the measured weights agree
\* perfectly (burnt exceeds consumed by 7700*k kcal and the last weight is k kg
\* below the first), the summary's accuracy_index is 100.
C26_PerfectAgreement ==
    (monthly # <<>> /\ EnergyBalanceMatchesScale) => monthly[1].accuracy_index = 100

\* the month's consumed and burnt totals are whole numbers of kcal
WholeTotals == MonthTotals(dailyData).consumed % 2 = 0

\* C29 as claimed: for whole-number totals, the reported average_net_calories
\* is the reported average consumed minus the reported average burnt.
C29_NetOfReportedAverages ==
    (monthly # <<>> /\ WholeTotals) =>
        monthly[1].average_net_calories
            = monthly[1].average_daily_calories_consumed
                - monthly[1].average_daily_calories_burnt

\* C29: average_net_calories is the rounded difference of the unrounded
\* averages; it is within 1 of the difference of the two reported averages,
\* and equal to it when the day count divides both totals.
C29_NetOfUnroundedAverages ==
    (monthly # <<>> /\ WholeTotals) =>
        LET m == monthly[1]
            n == IF Len(dailyData) >= 1 THEN Len(dailyData) ELSE 1
            consumed == MonthTotals(dailyData).consumed \div 2
            burnt == MonthTotals(dailyData).burnt
            reported == m.average_daily_calories_consumed - m.average_daily_calories_burnt
        IN  /\ IsRounded(m.average_net_calories, consumed - burnt, n)
            /\ Abs(m.average_net_calories - reported) <= 1
            /\ (consumed % n = 0 /\ burnt % n = 0) => m.average_net_calories = reported

\* C29 witness: 78 kcal consumed and 151 kcal burnt over two buckets: the
\* averages are reported as 39 and 76, the net average as -36.
C29_Witness ==
    /\ monthly # <<>>
    /\ Len(dailyData) = 2
    /\ MonthTotals(dailyData).consumed = 156
    /\ MonthTotals(dailyData).burnt = 151
    /\ monthly[1].average_daily_calories_consumed = 39
    /\ monthly[1].average_daily_calories_burnt = 76
    /\ monthly[1].average_net_calories = 0 - 36

(***************************************************************************)
(* Further properties of the goal resolver (checked under SpecGoal)        *)
(***************************************************************************)

\* C30: whenever calculateTargetCaloriesForWeightGoal gets past the
\* 'targetDay <= today' guard, daysUntilTarget is an integer >= 1 and the
\* returned calorie target is a finite number.
C30_DaysUntilTargetPositive ==
    (goalResult # <<>> /\ goalResult[1].path = "deadline") =>
        LET targetDay == NewDate(goalArgs.targetDate)
        IN  /\ targetDay.valid
            /\ MathCeil(targetDay.time - goalResult[1].today, MsPerDay) >= 1
            /\ ~goalResult[1].nan

(***************************************************************************)
(* Middleware (src/middleware.ts)                                          *)
(***************************************************************************)

\* NextResponse.next() and NextResponse.redirect(new URL(to, req.url))
NextResponseNext == [kind |-> "next", by |-> "middleware"]
NextResponseRedirect(to) == [kind |-> "redirect", to |-> to, by |-> "middleware"]

\* config.matcher: '/((?!api|_next/static|_next/image|favicon.ico).*)'.  A path
\* is a sequence of segments; the lookahead rejects a path whose text after the
\* first slash starts with one of the four words.
RequestPaths ==
    {"/", "/intro.mp4", "/sign-in", "/sign-up", "/reset-password", "/dashboard",
     "/reports", "/api/meals", "/favicon.ico"}
matcher(pathname) == pathname \notin {"/api/meals", "/favicon.ico"}

\* the earlier middleware: no public root, '/reset-password' is an auth page
middleware_earlier(pathname, u) ==
    IF ~u /\ pathname \notin {"/sign-in", "/sign-up", "/reset-password"}
    THEN NextResponseRedirect("/sign-in")
    ELSE IF u /\ pathname \in {"/sign-in", "/sign-up", "/reset-password"}
         THEN NextResponseRedirect("/dashboard")
         ELSE NextResponseNext

\* a middleware that bounces every anonymous request, the sign-in page included
middleware_noAuthPages(pathname, u) ==
    IF pathname = "/" \/ pathname = "/intro.mp4"
    THEN NextResponseNext
    ELSE IF ~u
         THEN NextResponseRedirect("/sign-in")
         ELSE IF pathname \in {"/sign-in", "/sign-up"}
              THEN NextResponseRedirect("/dashboard")
              ELSE NextResponseNext

\* middleware(req), as a function of req.nextUrl.pathname and of whether
\* getUser() yields a user
middleware(pathname, u) ==
    IF pathname = "/" \/ pathname = "/intro.mp4"
    THEN NextResponseNext
    ELSE IF ~u /\ pathname \notin {"/sign-in", "/sign-up"}
         THEN NextResponseRedirect("/sign-in")
         ELSE IF u /\ pathname \in {"/sign-in", "/sign-up"}
              THEN NextResponseRedirect("/dashboard")
              ELSE NextResponseNext

(***************************************************************************)
(* SpecMiddleware: a browser with a fixed authentication state navigates   *)
(* and follows the redirects the middleware answers with.                  *)
(***************************************************************************)

MaxNavigations == 3
MaxRedirects == 3

unchangedByRoute == <<today, goalVars, dayVars, monthVars, pageVars, formulaVars>>

InitMiddleware ==
    /\ today = 0
    /\ goalArgs = <<>> /\ goalResult = <<>>
    /\ profile = <<>> /\ todayMeals = <<>> /\ todayExercises = <<>>
    /\ todayWeight = <<>> /\ daily = <<>>
    /\ dailyData = <<>> /\ startWeightData = <<>> /\ endWeightData = <<>>
    /\ monthly = <<>>
    /\ PageIdle
    /\ FormulaIdle
    /\ reqPath \in RequestPaths
    /\ signedIn \in BOOLEAN
    /\ response = <<>>
    /\ redirects = 0
    /\ navigations = 0

\* the matcher selects the request and the middleware answers it
RunMiddleware ==
    /\ response = <<>>
    /\ matcher(reqPath)
    /\ response' = <<middleware(reqPath, signedIn)>>
    /\ UNCHANGED <<reqPath, signedIn, redirects, navigations>>
    /\ UNCHANGED unchangedByRoute

\* the matcher skips the request: the route is served without the middleware
SkipMiddleware ==
    /\ response = <<>>
    /\ ~matcher(reqPath)
    /\ response' = <<[kind |-> "next", by |-> "matcher"]>>
    /\ UNCHANGED <<reqPath, signedIn, redirects, navigations>>
    /\ UNCHANGED unchangedByRoute

\* the browser follows a redirect with the same cookies
FollowRedirect ==
    /\ response # <<>>
    /\ response[1].kind = "redirect"
    /\ redirects < MaxRedirects
    /\ reqPath' = response[1].to
    /\ response' = <<>>
    /\ redirects' = redirects + 1
    /\ UNCHANGED <<signedIn, navigations>>
    /\ UNCHANGED unchangedByRoute

\* the page was served; the user opens another path
Navigate ==
    /\ response # <<>>
    /\ response[1].kind = "next"
    /\ navigations < MaxNavigations
    /\ \E p \in RequestPaths : reqPath' = p
    /\ response' = <<>>
    /\ redirects' = 0
    /\ navigations' = navigations + 1
    /\ UNCHANGED signedIn
    /\ UNCHANGED unchangedByRoute

NextMiddleware ==
    \/ RunMiddleware
    \/ SkipMiddleware
    \/ FollowRedirect
    \/ Navigate

SpecMiddleware == InitMiddleware /\ [][NextMiddleware]_vars

(***************************************************************************)
(* Properties of the middleware (checked under SpecMiddleware)             *)
(***************************************************************************)

\* C24: the middleware passes '/' and '/intro.mp4' through whatever the
\* authentication state; it redirects a request without a user to '/sign-in'
\* unless the path is '/sign-in' or '/sign-up'; it redirects a request with a
\* user for '/sign-in' or '/sign-up' to '/dashboard'; it passes every other
\* request through.
C24_Routing ==
    (response # <<>> /\ response[1].by = "middleware") =>
        LET r == response[1]
            public == reqPath \in {"/", "/intro.mp4"}
            authPage == reqPath \in {"/sign-in", "/sign-up"}
        IN  /\ public => r.kind = "next"
            /\ (~public /\ ~signedIn /\ ~authPage) =>
                   (r.kind = "redirect" /\ r.to = "/sign-in")
            /\ (~public /\ signedIn /\ authPage) =>
                   (r.kind = "redirect" /\ r.to = "/dashboard")
            /\ (~public /\ (signedIn <=> ~authPage)) => r.kind = "next"

\* C24 witness: an anonymous request for '/' has been passed through.
C24_Witness ==
    /\ response # <<>>
    /\ response[1] = NextResponseNext
    /\ reqPath = "/" /\ ~signedIn

\* C25: with the authentication state fixed, at most one redirect is followed
\* from any starting path, and the request made after it is passed through.
C25_NoRedirectLoop ==
    /\ redirects <= 1
    /\ (redirects = 1 /\ response # <<>>) => response[1].kind = "next"

\* C25 witness: one redirect was followed and its target passed through.
C25_Witness ==
    /\ redirects = 1
    /\ response # <<>>
    /\ response[1].kind = "next"

====
